---- MODULE Spec2Model ----
(***************************************************************************)
(* A model of kobo2notion.py: one synchronization pass copies the          *)
(* e-reader database, extracts the bookmark rows, publishes every row      *)
(* newer than the watermark (delta_date) as a Notion page, retrying each   *)
(* request until it is answered with 200, and writes the new watermark     *)
(* back to config.yaml.                                                    *)
(*                                                                         *)
(* Python strings are modelled as sequences of one-character strings, so   *)
(* that parsing, formatting, stripping and the lexicographic comparison    *)
(* the script relies on are computed rather than assumed.                  *)
(***************************************************************************)
EXTENDS Integers, Sequences, FiniteSets, TLC

(***************************************************************************)
(* Bounds of the model.                                                    *)
(***************************************************************************)
\* largest number of joined rows the source database holds
MaxItems == 2
\* largest number of consecutive non-200 answers to one page creation
MaxRejects == 2
\* number of consecutive invocations of the script that are followed
MaxRuns == 2

(***************************************************************************)
(* Python values and strings.                                              *)
(***************************************************************************)
\* Python's None (also SQL NULL as sqlite3 returns it); no string equals it
None == << "None" >>

\* the outcome of convert_date raising ValueError('Invalid date format')
ValueError == << "ValueError" >>

\* the outcome of a datetime parser raising ValueError
ParseError == [error |-> "ValueError"]

\* the characters that occur in the model's strings, in code-point order
Ascii ==
    << " ", "+", ",", "-", ".", "0", "1", "2", "3", "4", "5", "6", "7", "8", "9",
       ":", "A", "B", "C", "D", "E", "F", "G", "H", "K", "N", "P", "S", "T", "Z",
       "a", "b", "c", "e", "g", "h", "i", "l", "n", "o", "r", "t", "u", "x" >>

Ord(c) == CHOOSE i \in 1..Len(Ascii) : Ascii[i] = c

Digits == << "0", "1", "2", "3", "4", "5", "6", "7", "8", "9" >>

IsDigit(c) == \E i \in 1..10 : Digits[i] = c

DigitVal(c) == (CHOOSE i \in 1..10 : Digits[i] = c) - 1

AllDigits(s) == \A i \in 1..Len(s) : IsDigit(s[i])

RECURSIVE Num(_)
\* int() of a string of decimal digits
Num(s) ==
    IF Len(s) = 0 THEN 0
    ELSE 10 * Num(SubSeq(s, 1, Len(s) - 1)) + DigitVal(s[Len(s)])

RECURSIVE Dec(_)
\* the decimal digits of a natural number, without padding
Dec(n) ==
    IF n < 10 THEN << Digits[n + 1] >>
    ELSE Append(Dec(n \div 10), Digits[(n % 10) + 1])

\* a number below 100 as two digits (%m, %d, %H, %M, %S)
Pad2(n) == << Digits[(n \div 10) + 1], Digits[(n % 10) + 1] >>

RECURSIVE StrLess(_, _)
\* a < b on Python strings: lexicographic by code point, a proper prefix first
StrLess(a, b) ==
    IF Len(b) = 0 THEN FALSE
    ELSE IF Len(a) = 0 THEN TRUE
    ELSE IF a[1] # b[1] THEN Ord(a[1]) < Ord(b[1])
    ELSE StrLess(Tail(a), Tail(b))

\* a > b on Python strings
StrGreater(a, b) == StrLess(b, a)

RECURSIVE LStrip(_)
LStrip(s) ==
    IF Len(s) > 0 /\ s[1] = " " THEN LStrip(Tail(s)) ELSE s

RECURSIVE RStrip(_)
RStrip(s) ==
    IF Len(s) > 0 /\ s[Len(s)] = " " THEN RStrip(SubSeq(s, 1, Len(s) - 1)) ELSE s

\* str.strip()
Strip(s) == RStrip(LStrip(s))

\* str.upper() of one character; the upper-case letters the model needs
Upper(c) ==
    CASE c = "h" -> "H"
      [] c = "n" -> "N"
      [] c = "a" -> "A"
      [] c = "b" -> "B"
      [] c = "c" -> "C"
      [] c = "e" -> "E"
      [] c = "g" -> "G"
      [] c = "t" -> "T"
      [] OTHER -> c

\* str.lower() of one character
Lower(c) ==
    CASE c = "H" -> "h"
      [] c = "N" -> "n"
      [] c = "A" -> "a"
      [] c = "B" -> "b"
      [] c = "C" -> "c"
      [] c = "E" -> "e"
      [] c = "G" -> "g"
      [] c = "T" -> "t"
      [] OTHER -> c

\* str.capitalize(): first character upper-cased, the rest lower-cased
Capitalize(s) ==
    [i \in 1..Len(s) |-> IF i = 1 THEN Upper(s[i]) ELSE Lower(s[i])]

(***************************************************************************)
(* datetime: parsing and formatting (the Date Normalizer).                 *)
(***************************************************************************)
\* the epoch sentinel that stands for an absent timestamp or watermark
NODELTA_DATE ==
    << "1", "9", "7", "0", "-", "0", "1", "-", "0", "1", " ",
       "0", "0", ":", "0", "0", ":", "0", "0" >>

IsLeap(y) == (y % 4 = 0 /\ y % 100 # 0) \/ y % 400 = 0

DaysInMonth(y, m) ==
    IF m = 2 THEN (IF IsLeap(y) THEN 29 ELSE 28)
    ELSE IF m \in {4, 6, 9, 11} THEN 30 ELSE 31

\* the field ranges the datetime constructor enforces
ValidFields(y, mo, d, h, mi, sec) ==
    /\ y \in 1..9999
    /\ mo \in 1..12
    /\ d >= 1 /\ d <= DaysInMonth(y, mo)
    /\ h \in 0..23
    /\ mi \in 0..59
    /\ sec \in 0..59

\* "YYYY-MM-DD"
DateShape(s) ==
    /\ Len(s) = 10
    /\ s[5] = "-" /\ s[8] = "-"
    /\ AllDigits(SubSeq(s, 1, 4))
    /\ AllDigits(SubSeq(s, 6, 7))
    /\ AllDigits(SubSeq(s, 9, 10))

\* "HH", "HH:MM", "HH:MM:SS", "HH:MM:SS.fff" or "HH:MM:SS.ffffff"
ClockShape(c) ==
    /\ Len(c) \in {2, 5, 8, 12, 15}
    /\ AllDigits(SubSeq(c, 1, 2))
    /\ Len(c) >= 5 => (c[3] = ":" /\ AllDigits(SubSeq(c, 4, 5)))
    /\ Len(c) >= 8 => (c[6] = ":" /\ AllDigits(SubSeq(c, 7, 8)))
    /\ Len(c) >= 12 => (c[9] = "." /\ AllDigits(SubSeq(c, 10, Len(c))))

\* the position of the sign that starts a UTC offset in a time string, or 0
TzPos(t) ==
    IF \E i \in 1..Len(t) : t[i] \in {"+", "-"}
    THEN CHOOSE i \in 1..Len(t) :
            /\ t[i] \in {"+", "-"}
            /\ \A j \in 1..(i - 1) : t[j] \notin {"+", "-"}
    ELSE 0

\* the clock part of a time string (what precedes the UTC offset)
ClockPart(t) == IF TzPos(t) = 0 THEN t ELSE SubSeq(t, 1, TzPos(t) - 1)

\* the UTC offset of a time string without its sign: "HH:MM" or "HH:MM:SS"
TzPart(t) == IF TzPos(t) = 0 THEN << >> ELSE SubSeq(t, TzPos(t) + 1, Len(t))

TzShape(z) ==
    /\ Len(z) \in {5, 8}
    /\ AllDigits(SubSeq(z, 1, 2))
    /\ z[3] = ":" /\ AllDigits(SubSeq(z, 4, 5))
    /\ Len(z) = 8 => (z[6] = ":" /\ AllDigits(SubSeq(z, 7, 8)))
    /\ Num(SubSeq(z, 1, 2)) * 60 + Num(SubSeq(z, 4, 5)) < 24 * 60

\* the UTC offset in minutes of a time string
UtcOffset(t) ==
    IF TzPos(t) = 0 THEN 0
    ELSE (IF t[TzPos(t)] = "-" THEN -1 ELSE 1)
            * (Num(SubSeq(TzPart(t), 1, 2)) * 60 + Num(SubSeq(TzPart(t), 4, 5)))

\* a datetime object; aware tells whether it carries a UTC offset (tzinfo)
MkDate(y, mo, d, h, mi, sec, aw, off) ==
    [year |-> y, month |-> mo, day |-> d, hour |-> h, minute |-> mi,
     second |-> sec, aware |-> aw, utcoffset |-> off]

\* datetime.fromisoformat(date_str): "YYYY-MM-DD", optionally followed by one
\* separator character and a time "HH[:MM[:SS[.fff[fff]]]]" with an optional
\* UTC offset "+HH:MM[:SS]"; ValueError otherwise
fromisoformat(s) ==
    IF Len(s) < 10 \/ ~DateShape(SubSeq(s, 1, 10)) THEN ParseError
    ELSE LET y == Num(SubSeq(s, 1, 4))
             mo == Num(SubSeq(s, 6, 7))
             d == Num(SubSeq(s, 9, 10))
             t == SubSeq(s, 12, Len(s))
             c == ClockPart(t)
             h == Num(SubSeq(c, 1, 2))
             mi == IF Len(c) >= 5 THEN Num(SubSeq(c, 4, 5)) ELSE 0
             sec == IF Len(c) >= 8 THEN Num(SubSeq(c, 7, 8)) ELSE 0
         IN IF Len(s) = 10
            THEN (IF ValidFields(y, mo, d, 0, 0, 0)
                  THEN MkDate(y, mo, d, 0, 0, 0, FALSE, 0) ELSE ParseError)
            ELSE IF /\ ClockShape(c)
                    /\ TzPos(t) # 0 => TzShape(TzPart(t))
                    /\ ValidFields(y, mo, d, h, mi, sec)
                 THEN MkDate(y, mo, d, h, mi, sec, TzPos(t) # 0, UtcOffset(t))
                 ELSE ParseError

\* datetime.strptime(date_str, '%Y-%m-%dT%H:%M:%SZ') on two-digit fields
strptime(s) ==
    IF /\ Len(s) = 20
       /\ DateShape(SubSeq(s, 1, 10))
       /\ s[11] = "T"
       /\ ClockShape(SubSeq(s, 12, 19))
       /\ s[20] = "Z"
       /\ ValidFields(Num(SubSeq(s, 1, 4)), Num(SubSeq(s, 6, 7)),
                      Num(SubSeq(s, 9, 10)), Num(SubSeq(s, 12, 13)),
                      Num(SubSeq(s, 15, 16)), Num(SubSeq(s, 18, 19)))
    THEN MkDate(Num(SubSeq(s, 1, 4)), Num(SubSeq(s, 6, 7)),
                Num(SubSeq(s, 9, 10)), Num(SubSeq(s, 12, 13)),
                Num(SubSeq(s, 15, 16)), Num(SubSeq(s, 18, 19)), FALSE, 0)
    ELSE ParseError

\* date_obj.strftime('%Y-%m-%d %H:%M:%S'): the UTC offset is not rendered, and
\* %Y is the year's decimal digits as the C library prints them
strftime(d) ==
    Dec(d.year) \o << "-" >> \o Pad2(d.month) \o << "-" >> \o Pad2(d.day)
        \o << " " >> \o Pad2(d.hour) \o << ":" >> \o Pad2(d.minute)
        \o << ":" >> \o Pad2(d.second)

\* convert_date that takes an unparseable string for the epoch sentinel
convert_dateLenient(date_str) ==
    IF fromisoformat(date_str) # ParseError
    THEN strftime(fromisoformat(date_str))
    ELSE IF strptime(date_str) # ParseError
         THEN strftime(strptime(date_str))
         ELSE NODELTA_DATE

\* convert_date(date_str): the canonical string, or ValueError when raised
convert_date(date_str) ==
    IF fromisoformat(date_str) # ParseError
    THEN strftime(fromisoformat(date_str))
    ELSE IF strptime(date_str) # ParseError
         THEN strftime(strptime(date_str))
         ELSE ValueError

(***************************************************************************)
(* The inputs: timestamps, database rows, files, configuration documents.  *)
(***************************************************************************)
\* str(x) for the values of the model: None prints as 'None'
PyStr(v) == IF v = None THEN << "N", "o", "n", "e" >> ELSE v

\* '2023-01-01T00:00:00.000', a timestamp as the e-reader writes it
DateJan ==
    << "2", "0", "2", "3", "-", "0", "1", "-", "0", "1", "T",
       "0", "0", ":", "0", "0", ":", "0", "0", ".", "0", "0", "0" >>

\* '2023-06-01T00:00:00Z', the Z-suffixed form
DateJun ==
    << "2", "0", "2", "3", "-", "0", "6", "-", "0", "1", "T",
       "0", "0", ":", "0", "0", ":", "0", "0", "Z" >>

\* '2023-12-01 00:00:00'
DateDec ==
    << "2", "0", "2", "3", "-", "1", "2", "-", "0", "1", " ",
       "0", "0", ":", "0", "0", ":", "0", "0" >>

\* '2023-13-01', which no parser accepts
DateBad == << "2", "0", "2", "3", "-", "1", "3", "-", "0", "1" >>

\* one row of the join of Bookmark and content, in the order of the SELECT
Row(type, text, created, modified, title) ==
    << << "v" >>, type, text, None, None, created, modified,
       << "B" >>, title, << "a", "u" >> >>

Highlight == << "h", "i", "g", "h", "l", "i", "g", "h", "t" >>

Note == << "n", "o", "t", "e" >>

\* the rows a source database is made of
Rows ==
    { Row(Highlight, << "a", "b" >>, None, None, << "A" >>),
      Row(Highlight, << "b" >>, DateJan, DateJan, << "B" >>),
      Row(Note, << "c" >>, DateJun, DateJun, << "C" >>),
      Row(Highlight, << >>, DateJan, DateJun, << "D" >>),
      Row(Note, << "e" >>, DateDec, None, << "E" >>),
      Row(Highlight, << "e" >>, DateBad, DateJan, << "F" >>),
      Row(Note, << "g" >>, DateDec, DateBad, << "G" >>),
      Row(Highlight, None, DateJun, DateJan, << "H" >>) }

\* the tables a readable database file may hold
Tables == UNION { [1..n -> Rows] : n \in 0..MaxItems }

\* a path that does not exist
Absent == [exists |-> FALSE, readable |-> FALSE, rows |-> << >>]

\* a file that is no readable database: the query fails on it, whatever rows
\* its bytes once held
Corrupt ==
    [exists |-> TRUE, readable |-> FALSE,
     rows |-> << Row(Note, << "c" >>, DateJun, DateJun, << "C" >>) >>]

DbFile(rows) == [exists |-> TRUE, readable |-> TRUE, rows |-> rows]

\* the canonical strings a configuration file may hold as delta_date
June == convert_date(DateJun)

January == convert_date(DateJan)

\* a YAML scalar: its style ("plain", "double" or "null" for !!null) and text
Scalar(style, value) == [style |-> style, value |-> value]

\* the delta_date scalars of the configuration files the model starts from:
\* "", "2023-01-01 00:00:00", "2023-06-01 00:00:00" and an empty plain scalar
DeltaScalars ==
    { Scalar("double", << >>), Scalar("double", January),
      Scalar("double", June), Scalar("plain", << >>) }

\* config.yaml with the given delta_date scalar
ConfigDoc(delta) ==
    [kobo |-> [database_path |-> Scalar("plain", << "K" >>),
               database_cache |-> Scalar("plain", << "C" >>)],
     notion |-> [integration_token |-> Scalar("plain", << "T" >>),
                 parent_page |-> Scalar("plain", << "P" >>),
                 icon |-> Scalar("plain", << "N" >>)],
     kobo2notion |-> [delta_date |-> delta]]

\* what yaml.safe_load makes of one scalar: a quoted scalar is its text, an
\* empty plain scalar is None, and the other plain scalars of the model load
\* to values whose str() is the text as written
LoadScalar(sc) ==
    IF sc.style = "null" THEN None
    ELSE IF sc.style = "plain" /\ sc.value = << >> THEN None
    ELSE sc.value

\* what yaml.safe_dump(..., default_style='"') writes for one value
DumpScalar(v) ==
    IF v = None THEN Scalar("null", << "n", "u", "l", "l" >>)
    ELSE Scalar("double", v)

\* yaml.safe_load(config_file)
safe_load(doc) ==
    [sec \in DOMAIN doc |->
        [key \in DOMAIN doc[sec] |-> LoadScalar(doc[sec][key])]]

\* safe_dump that writes null for every field but those of kobo2notion
safe_dumpWatermarkOnly(cfg) ==
    [sec \in DOMAIN cfg |->
        [key \in DOMAIN cfg[sec] |->
            IF sec = "kobo2notion" THEN DumpScalar(cfg[sec][key])
            ELSE DumpScalar(None)]]

\* yaml.safe_dump(config, config_file, default_style='"')
safe_dump(cfg) ==
    [sec \in DOMAIN cfg |->
        [key \in DOMAIN cfg[sec] |-> DumpScalar(cfg[sec][key])]]

\* the configuration before the module has loaded it
NoConfig ==
    [kobo |-> [database_path |-> None, database_cache |-> None],
     notion |-> [integration_token |-> None, parent_page |-> None, icon |-> None],
     kobo2notion |-> [delta_date |-> None]]

(***************************************************************************)
(* The program's pure steps.                                               *)
(***************************************************************************)
\* Item.__init__ that keeps an absent timestamp as it is
ItemKeepsNone(values) ==
    [volumeid |-> values[1],
     type |-> values[2],
     text |-> values[3],
     annotation |-> values[4],
     extraannotationdata |-> values[5],
     datecreated |-> values[6],
     datemodified |-> values[7],
     booktitle |-> values[8],
     title |-> values[9],
     author |-> values[10]]

\* Item.__init__: an absent timestamp becomes the epoch sentinel
Item(values) ==
    [volumeid |-> values[1],
     type |-> values[2],
     text |-> values[3],
     annotation |-> values[4],
     extraannotationdata |-> values[5],
     datecreated |-> IF values[6] # None THEN values[6] ELSE NODELTA_DATE,
     datemodified |-> IF values[7] # None THEN values[7] ELSE NODELTA_DATE,
     booktitle |-> values[8],
     title |-> values[9],
     author |-> values[10]]

\* Item.to_dict
to_dict(item) ==
    [volumeid |-> item.volumeid,
     type |-> item.type,
     text |-> item.text,
     annotation |-> item.annotation,
     extraannotationdata |-> item.extraannotationdata,
     datecreated |-> item.datecreated,
     datemodified |-> item.datemodified,
     booktitle |-> item.booktitle,
     title |-> item.title,
     author |-> item.author]

\* parse_database that returns rows of a file the query failed on
parse_databaseUnguarded(file) ==
    [i \in 1..Len(file.rows) |-> to_dict(Item(file.rows[i]))]

\* parse_database: the dictionaries of the rows, or [] when the read fails
parse_database(file) ==
    IF file.exists /\ file.readable
    THEN [i \in 1..Len(file.rows) |-> to_dict(Item(file.rows[i]))]
    ELSE << >>

\* the size of a content block
BlockSize == 2000

\* content_blocks that keeps the first block only
content_blocksTruncated(main_content) ==
    IF main_content = << >> THEN << >>
    ELSE << SubSeq(main_content, 1,
                   IF BlockSize < Len(main_content)
                   THEN BlockSize ELSE Len(main_content)) >>

\* content_blocks: main_content cut at every BlockSize characters
content_blocks(main_content) ==
    [k \in 1..((Len(main_content) + BlockSize - 1) \div BlockSize) |->
        SubSeq(main_content, (k - 1) * BlockSize + 1,
               IF k * BlockSize < Len(main_content)
               THEN k * BlockSize ELSE Len(main_content))]

\* a paragraph block of the request body
Paragraph(content, italic) == [content |-> content, italic |-> italic]

\* the request body create_notion_page builds before it posts
PageData(parent_page_id, icon, title_content, main_content, source_content) ==
    [parent |-> parent_page_id,
     icon |-> icon,
     title |-> title_content,
     children |->
        [k \in 1..Len(content_blocks(main_content)) |->
            Paragraph(content_blocks(main_content)[k], FALSE)]
        \o << Paragraph(source_content, TRUE) >>]

\* the value of data before any page is built
NoData == [parent |-> None, icon |-> None, title |-> None, children |-> << >>]

\* f'{record_type}: {title}'
TitleContent(kobo_item) ==
    Capitalize(kobo_item.type) \o << ":", " " >> \o PyStr(kobo_item.title)

\* f'Source: {title}, {author}'
SourceContent(kobo_item) ==
    << "S", "o", "u", "r", "c", "e", ":", " " >> \o PyStr(kobo_item.title)
        \o << ",", " " >> \o PyStr(kobo_item.author)

\* Eligible with >= in place of >
EligibleNotStrict(delta, date_created, date_modified) ==
    \/ delta = None
    \/ ~StrLess(date_created, delta)
    \/ ~StrLess(date_modified, delta)

\* the test that decides whether a record is published
Eligible(delta, date_created, date_modified) ==
    \/ delta = None
    \/ StrGreater(date_created, delta)
    \/ StrGreater(date_modified, delta)

\* Threshold that is the watermark accumulated so far, once there is one
ThresholdAccumulated(delta, latest) == IF latest = None THEN delta ELSE latest

\* the date the filter compares a record's timestamps with: delta_date as
\* the run was given it, whatever latest_date holds
Threshold(delta, latest) == delta

\* NewLatest without the comparison of date_modified
NewLatestCreatedOnly(latest, date_created, date_modified) ==
    IF latest = None \/ StrGreater(date_created, latest)
    THEN date_created ELSE latest

\* NewLatest that takes the record's date_modified whenever it publishes it
NewLatestLastModified(latest, date_created, date_modified) == date_modified

\* NewLatest that keeps the earliest timestamp in place of the latest
NewLatestEarliest(latest, date_created, date_modified) ==
    LET first == IF latest = None \/ StrLess(date_created, latest)
                 THEN date_created ELSE latest
    IN IF StrLess(date_modified, first) THEN date_modified ELSE first

\* latest_date after a published record
NewLatest(latest, date_created, date_modified) ==
    LET first == IF latest = None \/ StrGreater(date_created, latest)
                 THEN date_created ELSE latest
    IN IF StrGreater(date_modified, first) THEN date_modified ELSE first

\* Truthy that takes None for a value to write
TruthyAlways(v) == TRUE

\* the truth value of latest_date in "if latest_date:"
Truthy(v) == v # None /\ v # << >>

\* IsSuccess that takes every answer for a success
IsSuccessAny(status) == TRUE

\* response.status_code == 200
IsSuccess(status) == status = 200

\* the status codes the remote endpoint answers with
StatusCodes == {200, 429}

\* LoopDone that stops one record early
LoopDoneEarly(i, items) == i >= Len(items)

\* the for loop over kobo_items has no record left at position i
LoopDone(i, items) == i > Len(items)

\* PathExists that takes every path to exist
PathExistsAlways(file) == TRUE

\* os.path.exists
PathExists(file) == file.exists

\* a log record: its level, its message and the message's variable part
LogLine(level, msg, arg) == [level |-> level, msg |-> msg, arg |-> arg]

(***************************************************************************)
(* The state.                                                              *)
(***************************************************************************)
VARIABLES
    srcFile,        \* the file at database_path on the e-reader
    cacheFile,      \* the file at database_cache
    cfgFile,        \* config.yaml, as a YAML document
    pc,             \* where the process is
    raised,         \* the exception that ended the process, "" if none
    config,         \* the module's config dictionary
    delta_date,     \* the watermark the run compares with
    kobo_items,     \* the records parse_database returned
    idx,            \* the position of the for loop in kobo_items
    date_created,   \* the loop's normalized createdAt
    date_modified,  \* the loop's normalized modifiedAt
    latest_date,    \* the watermark accumulated by the run
    data,           \* the request body of the page being created
    response,       \* the status code of the last response, 0 before any
    log,            \* the records logged since the process started or,
                    \* once a page is being created, since that call began
    effects,        \* the file operations the process has performed
    called,         \* the positions create_notion_page was called for
    published,      \* the positions create_notion_page returned for
    reqs,           \* the requests of the current call and their answers
    sleeps,         \* the number of sleeps of the current call
    cfgAtStart,     \* config.yaml as it was when the process started
    cacheAtStart,   \* the cache file as it was when the process started
    haltedAt,       \* where the process was when it was terminated
    runs,           \* the number of invocations so far
    prevOutcome,    \* how the previous invocation ended
    prevPublished   \* the positions the previous invocation published

filesystem == << srcFile, cacheFile, cfgFile >>

process ==
    << pc, raised, config, delta_date, kobo_items, idx, date_created,
       date_modified, latest_date, data, response, log >>

history ==
    << effects, called, published, reqs, sleeps, cfgAtStart, cacheAtStart,
       haltedAt, runs, prevOutcome, prevPublished >>

vars == << filesystem, process, history >>

\* the places where a process is running
Running == {"load", "copy", "export", "loop", "post", "sleep", "persist", "finish"}

\* the places where a process has ended
Ended == {"done", "exited", "aborted", "killed"}

\* a process that has just been started, before its first statement
Fresh ==
    /\ pc = "load"
    /\ raised = ""
    /\ config = NoConfig
    /\ delta_date = None
    /\ kobo_items = << >>
    /\ idx = 0
    /\ date_created = None
    /\ date_modified = None
    /\ latest_date = None
    /\ data = NoData
    /\ response = 0
    /\ log = << >>
    /\ effects = << >>
    /\ called = << >>
    /\ published = << >>
    /\ reqs = << >>
    /\ sleeps = 0
    /\ haltedAt = ""

Init ==
    /\ srcFile \in {Absent, Corrupt} \cup { DbFile(t) : t \in Tables }
    /\ cacheFile \in (IF srcFile = Absent THEN {Absent, DbFile(<< >>)} ELSE {Absent})
    /\ cfgFile \in { ConfigDoc(d) : d \in DeltaScalars }
    /\ Fresh
    /\ cfgAtStart = cfgFile
    /\ cacheAtStart = cacheFile
    /\ runs = 1
    /\ prevOutcome = ""
    /\ prevPublished = {}

(***************************************************************************)
(* The steps of one invocation of the script.                              *)
(***************************************************************************)
\* delta_date as the module computes it from the loaded configuration:
\* stripped, the epoch sentinel when empty, not yet normalized
ConfiguredDelta(cfg) ==
    IF Strip(PyStr(cfg.kobo2notion.delta_date)) = << >>
    THEN NODELTA_DATE
    ELSE Strip(PyStr(cfg.kobo2notion.delta_date))

\* the module loads config.yaml and normalizes delta_date
LoadConfig ==
    /\ pc = "load"
    /\ config' = safe_load(cfgFile)
    /\ \E configured \in {ConfiguredDelta(safe_load(cfgFile))} :
       \E converted \in {convert_date(configured)} :
        IF converted = ValueError
        THEN /\ delta_date' = configured
             /\ pc' = "aborted"
             /\ raised' = "ValueError"
        ELSE /\ delta_date' = converted
             /\ pc' = "copy"
             /\ raised' = raised
    /\ UNCHANGED << filesystem, kobo_items, idx, date_created, date_modified,
                    latest_date, data, response, log, history >>

\* copy_database: copy the e-reader's database over the cache, or exit
copy_database ==
    /\ pc = "copy"
    /\ IF PathExists(srcFile)
       THEN /\ log' = Append(log, LogLine("INFO", "Retrieving database from e-reader", << >>))
            /\ effects' = effects
                    \o (IF PathExists(cacheFile) THEN << "remove_cache" >> ELSE << >>)
                    \o << "copy_to_cache" >>
            /\ cacheFile' = srcFile
            /\ pc' = "export"
            /\ raised' = raised
       ELSE /\ log' = Append(log, LogLine("ERROR", "Database not found, is your e-reader connected?", << >>))
            /\ effects' = effects
            /\ cacheFile' = cacheFile
            /\ pc' = "exited"
            /\ raised' = "SystemExit"
    /\ UNCHANGED << srcFile, cfgFile, config, delta_date, kobo_items, idx,
                    date_created, date_modified, latest_date, data, response,
                    called, published, reqs, sleeps, cfgAtStart, cacheAtStart,
                    haltedAt, runs, prevOutcome, prevPublished >>

\* export_kobo_items up to its loop: the records are read from the cache; a
\* failed read is reported through a logging call whose arguments do not fit
\* its message, so the handler prints a logging error in place of the line
ReadItems ==
    /\ pc = "export"
    /\ latest_date' = None
    /\ kobo_items' = parse_database(cacheFile)
    /\ log' = log \o << LogLine("INFO", "Parsing database", << >>) >>
                  \o (IF cacheFile.readable THEN << >>
                      ELSE << LogLine("ERROR", "--- Logging error ---", << >>) >>)
    /\ effects' = Append(effects, "query_cache")
    /\ idx' = 1
    /\ pc' = "loop"
    /\ UNCHANGED << filesystem, raised, config, delta_date, date_created,
                    date_modified, data, response, called, published, reqs,
                    sleeps, cfgAtStart, cacheAtStart, haltedAt, runs, prevOutcome, prevPublished >>

\* one pass of the for loop up to the request: the timestamps are normalized,
\* the record is skipped or a page is built for it
NextItem ==
    /\ pc = "loop"
    /\ ~LoopDone(idx, kobo_items)
    /\ \E item \in {kobo_items[idx]} :
       \E dc \in {convert_date(item.datecreated)} :
       \E dm \in {convert_date(item.datemodified)} :
          IF dc = ValueError \/ dm = ValueError
          THEN /\ pc' = "aborted"
               /\ raised' = "ValueError"
               /\ date_created' = IF dc = ValueError THEN date_created ELSE dc
               /\ UNCHANGED << idx, date_modified, data, called, reqs, sleeps, log >>
          ELSE /\ date_created' = dc
               /\ date_modified' = dm
               /\ IF Eligible(Threshold(delta_date, latest_date), dc, dm)
                  THEN /\ called' = Append(called, idx)
                       /\ idx' = idx
                       /\ IF item.text = None
                          THEN /\ pc' = "aborted"
                               /\ raised' = "TypeError"
                               /\ UNCHANGED << data, reqs, sleeps, log >>
                          ELSE /\ data' = PageData(config.notion.parent_page,
                                                   config.notion.icon,
                                                   TitleContent(item), item.text,
                                                   SourceContent(item))
                               /\ reqs' = << >>
                               /\ sleeps' = 0
                               /\ log' = << >>
                               /\ pc' = "post"
                               /\ raised' = raised
                  ELSE /\ idx' = idx + 1
                       /\ pc' = "loop"
                       /\ raised' = raised
                       /\ UNCHANGED << data, called, reqs, sleeps, log >>
    /\ UNCHANGED << filesystem, config, delta_date, kobo_items, latest_date,
                    response, effects, published, cfgAtStart, cacheAtStart, haltedAt,
                    runs, prevOutcome, prevPublished >>

\* Post that writes the watermark to config.yaml after every created page
PostEager ==
    /\ pc = "post"
    /\ \E status \in StatusCodes :
        /\ IsSuccess(status) \/ Len(reqs) < MaxRejects
        /\ reqs' = Append(reqs, [body |-> data, status |-> status])
        /\ response' = status
        /\ IF IsSuccess(status)
           THEN /\ log' = Append(log, LogLine("INFO", "Created", data.title))
                /\ published' = Append(published, idx)
                /\ latest_date' = NewLatest(latest_date, date_created, date_modified)
                /\ config' = [config EXCEPT !.kobo2notion.delta_date = latest_date']
                /\ cfgFile' = safe_dump(config')
                /\ effects' = Append(effects, "write_config")
                /\ idx' = idx + 1
                /\ pc' = "loop"
           ELSE /\ log' = log \o << LogLine("ERROR", "status", Dec(status)),
                                    LogLine("INFO", "Retrying in 1 minute", << >>) >>
                /\ pc' = "sleep"
                /\ UNCHANGED << published, latest_date, idx, config, cfgFile, effects >>
    /\ UNCHANGED << srcFile, cacheFile, raised, delta_date, kobo_items,
                    date_created, date_modified, data, called, sleeps,
                    cfgAtStart, cacheAtStart, haltedAt, runs, prevOutcome,
                    prevPublished >>

\* requests.post and the test of its answer: a 200 ends the call, and the
\* loop accumulates latest_date; anything else is logged and slept on
Post ==
    /\ pc = "post"
    /\ \E status \in StatusCodes :
        /\ IsSuccess(status) \/ Len(reqs) < MaxRejects
        /\ reqs' = Append(reqs, [body |-> data, status |-> status])
        /\ response' = status
        /\ IF IsSuccess(status)
           THEN /\ log' = Append(log, LogLine("INFO", "Created", data.title))
                /\ published' = Append(published, idx)
                /\ latest_date' = NewLatest(latest_date, date_created, date_modified)
                /\ idx' = idx + 1
                /\ pc' = "loop"
           ELSE /\ log' = log \o << LogLine("ERROR", "status", Dec(status)),
                                    LogLine("INFO", "Retrying in 1 minute", << >>) >>
                /\ pc' = "sleep"
                /\ UNCHANGED << published, latest_date, idx >>
    /\ UNCHANGED << filesystem, raised, config, delta_date, kobo_items,
                    date_created, date_modified, data, effects, called, sleeps, cfgAtStart, cacheAtStart, haltedAt, runs, prevOutcome, prevPublished >>

\* time.sleep(60), after which the same request is sent again
Sleep ==
    /\ pc = "sleep"
    /\ sleeps' = sleeps + 1
    /\ pc' = "post"
    /\ UNCHANGED << filesystem, raised, config, delta_date, kobo_items, idx,
                    date_created, date_modified, latest_date, data, response,
                    log, effects, called, published, reqs, cfgAtStart, cacheAtStart,
                    haltedAt, runs, prevOutcome, prevPublished >>

\* the for loop has no record left
EndLoop ==
    /\ pc = "loop"
    /\ LoopDone(idx, kobo_items)
    /\ pc' = "persist"
    /\ UNCHANGED << filesystem, raised, config, delta_date, kobo_items, idx,
                    date_created, date_modified, latest_date, data, response,
                    log, history >>

\* the end of export_kobo_items: the watermark is written if there is one
Persist ==
    /\ pc = "persist"
    /\ IF Truthy(latest_date)
       THEN /\ config' = [config EXCEPT !.kobo2notion.delta_date = latest_date]
            /\ cfgFile' = safe_dump(config')
            /\ effects' = Append(effects, "write_config")
       ELSE UNCHANGED << config, cfgFile, effects >>
    /\ pc' = "finish"
    /\ UNCHANGED << srcFile, cacheFile, raised, delta_date, kobo_items, idx,
                    date_created, date_modified, latest_date, data, response,
                    log, called, published, reqs, sleeps, cfgAtStart, cacheAtStart,
                    haltedAt, runs, prevOutcome, prevPublished >>

\* logging.info('Process finished') and the end of the script
Finish ==
    /\ pc = "finish"
    /\ log' = Append(log, LogLine("INFO", "Process finished", << >>))
    /\ pc' = "done"
    /\ UNCHANGED << filesystem, raised, config, delta_date, kobo_items, idx,
                    date_created, date_modified, latest_date, data, response,
                    history >>

(***************************************************************************)
(* The environment: the process is terminated, the script is run again.    *)
(***************************************************************************)
\* the process is terminated from outside
Kill ==
    /\ pc \in Running
    /\ haltedAt' = pc
    /\ pc' = "killed"
    /\ UNCHANGED << filesystem, raised, config, delta_date, kobo_items, idx,
                    date_created, date_modified, latest_date, data, response,
                    log, effects, called, published, reqs, sleeps,
                    cfgAtStart, cacheAtStart, runs, prevOutcome, prevPublished >>

\* how the invocation ended; a termination after the watermark step is told
\* from an earlier one
Outcome ==
    IF pc = "killed" /\ haltedAt = "finish" THEN "killed late" ELSE pc

\* the script is invoked again, on the same e-reader database
Restart ==
    /\ pc \in Ended
    /\ runs < MaxRuns
    /\ runs' = runs + 1
    /\ prevOutcome' = Outcome
    /\ prevPublished' = { published[i] : i \in 1..Len(published) }
    /\ cfgAtStart' = cfgFile
    /\ cacheAtStart' = cacheFile
    /\ pc' = "load"
    /\ raised' = ""
    /\ config' = NoConfig
    /\ delta_date' = None
    /\ kobo_items' = << >>
    /\ idx' = 0
    /\ date_created' = None
    /\ date_modified' = None
    /\ latest_date' = None
    /\ data' = NoData
    /\ response' = 0
    /\ log' = << >>
    /\ effects' = << >>
    /\ called' = << >>
    /\ published' = << >>
    /\ reqs' = << >>
    /\ sleeps' = 0
    /\ haltedAt' = ""
    /\ UNCHANGED filesystem

\* a step of the program itself
Step ==
    \/ LoadConfig
    \/ copy_database
    \/ ReadItems
    \/ NextItem
    \/ Post
    \/ Sleep
    \/ EndLoop
    \/ Persist
    \/ Finish

Next == Step \/ Kill \/ Restart

Spec == Init /\ [][Next]_vars

\* a request that is answered with 200
Accepted == Post /\ response' = 200

\* the invocations that nobody terminates
FairNext == Step \/ Restart

\* Invocations that are left to run: the interpreter keeps executing the
\* script, and the endpoint answers a repeated request with 200 in the end.
FairSpec ==
    Init /\ [][FairNext]_vars /\ WF_vars(Step) /\ SF_vars(Accepted)

(***************************************************************************)
(* Properties.                                                             *)
(***************************************************************************)
\* the positions the run has published
PublishedSet == { published[i] : i \in 1..Len(published) }

\* the positions of kobo_items the loop has decided: skipped, or published
Decided == 1..(idx - 1)

\* the timestamps a record of the model's databases may carry
RecordDates == {NODELTA_DATE, DateJan, DateJun, DateDec, DateBad}

\* convert_date on the timestamps of the records, computed once
Normalized == [d \in RecordDates |-> convert_date(d)]

\* the normalized timestamps of the record at position i
CreatedAt(i) == Normalized[kobo_items[i].datecreated]

ModifiedAt(i) == Normalized[kobo_items[i].datemodified]

\* the record at position i is newer than the watermark w
Newer(i, w) ==
    \E c \in {CreatedAt(i)} : \E m \in {ModifiedAt(i)} :
        StrGreater(c, w) \/ StrGreater(m, w)

\* the greatest string of a non-empty set of strings
StrMax(S) == CHOOSE x \in S : \A y \in S : ~StrLess(x, y)

\* the watermark config.yaml holds
Persisted == LoadScalar(cfgFile.kobo2notion.delta_date)

\* the run has gone through its watermark step
PastPersist == pc \in {"finish", "done"}

\* C1: every record the loop has decided is published if and only if its
\* createdAt or its modifiedAt is strictly greater than the watermark the run
\* started with; a completed run in which no record is newer leaves
\* config.yaml as it was.
C1_PublishedIffNewer ==
    /\ PublishedSet \subseteq Decided
    /\ \A i \in Decided : (i \in PublishedSet) <=> Newer(i, delta_date)
    /\ (PastPersist /\ \A i \in 1..Len(kobo_items) : ~Newer(i, delta_date))
            => cfgFile = cfgAtStart

\* C1 witness: a completed run published one record and skipped another whose
\* modifiedAt equals the watermark.
C1_Witness ==
    /\ pc = "done"
    /\ published # << >>
    /\ \E i \in 1..Len(kobo_items) :
        /\ i \notin PublishedSet
        /\ ModifiedAt(i) = delta_date
        /\ ~StrGreater(CreatedAt(i), delta_date)

\* C2: after a run that published at least one record, config.yaml holds the
\* greatest of the prior watermark and the createdAt and modifiedAt of the
\* published records.
C2_WatermarkIsMax ==
    (PastPersist /\ published # << >>)
        => Persisted = StrMax({delta_date}
                \cup { CreatedAt(i) : i \in PublishedSet }
                \cup { ModifiedAt(i) : i \in PublishedSet })

\* C2 witness: from the epoch sentinel, records created at 2023-01-01 and
\* 2023-06-01 are both published and the watermark becomes 2023-06-01 00:00:00.
C2_Witness ==
    /\ pc = "done"
    /\ LoadScalar(cfgAtStart.kobo2notion.delta_date) = << >>
    /\ Len(kobo_items) = 2
    /\ CreatedAt(1) = January
    /\ CreatedAt(2) = June
    /\ published = << 1, 2 >>
    /\ Persisted = June

\* C3: a run that follows a completed run over the same records publishes
\* nothing and does not write config.yaml.
C3_SecondRunPublishesNothing ==
    prevOutcome = "done"
        => /\ called = << >>
           /\ published = << >>
           /\ cfgFile = cfgAtStart
           /\ \A k \in 1..Len(effects) : effects[k] # "write_config"

\* C3 witness: the run after a completed run that published records is done.
C3_Witness ==
    /\ prevOutcome = "done"
    /\ prevPublished # {}
    /\ pc = "done"
    /\ Len(kobo_items) > 0

\* C4: when the configured delta_date is empty, a completed run has published
\* every record the extractor returned.
C4_EmptyWatermarkPublishesAll ==
    (PastPersist /\ Strip(PyStr(LoadScalar(cfgAtStart.kobo2notion.delta_date))) = << >>)
        => PublishedSet = 1..Len(kobo_items)

\* C5: as long as a run has published no record, config.yaml is as it was
\* when the run started and has not been written.
C5_NothingPublishedNothingWritten ==
    published = << >>
        => /\ cfgFile = cfgAtStart
           /\ \A k \in 1..Len(effects) : effects[k] # "write_config"

\* C5 witness: a run over one or more records, none of them newer than the
\* watermark, is done.
C5_Witness ==
    /\ pc = "done"
    /\ Len(kobo_items) > 0
    /\ published = << >>

\* the number of records of the given level in the log
LogCount(level) == Cardinality({ k \in 1..Len(log) : log[k].level = level })

\* the number of success lines in the log
CreatedCount == Cardinality({ k \in 1..Len(log) : log[k].msg = "Created" })

\* the number of requests of the current call answered with something else
\* than 200
Rejections == Cardinality({ k \in 1..Len(reqs) : reqs[k].status # 200 })

\* a call of create_notion_page is under way
InCall == pc \in {"post", "sleep"}

\* the last call of create_notion_page has returned
Returned == called # << >> /\ published = called

\* C6: a call of create_notion_page answered by n rejections and then a 200
\* has sent n+1 requests with the same body, logged n error lines and one
\* success line, and slept n times, once after each rejection; while no 200
\* has been received the call has not returned.
C6_RetryUntilSuccess ==
    /\ \A k \in 1..Len(reqs) : reqs[k].body = data
    /\ Returned =>
        /\ Len(reqs) = Rejections + 1
        /\ reqs[Len(reqs)].status = 200
        /\ LogCount("ERROR") = Rejections
        /\ sleeps = Rejections
        /\ CreatedCount = 1
    /\ pc = "post" =>
        /\ Len(reqs) = Rejections
        /\ sleeps = Rejections
        /\ LogCount("ERROR") = Rejections
        /\ CreatedCount = 0
    /\ pc = "sleep" =>
        /\ Len(reqs) = Rejections
        /\ sleeps + 1 = Rejections
        /\ LogCount("ERROR") = Rejections
        /\ CreatedCount = 0
    /\ (InCall \/ (pc = "killed" /\ haltedAt \in {"post", "sleep"}))
            => idx \notin PublishedSet

\* C6 witness: a call answered 429, 429, 200 has returned.
C6_Witness ==
    /\ pc = "loop"
    /\ Returned
    /\ Len(reqs) = 3
    /\ reqs[1].status = 429
    /\ reqs[2].status = 429
    /\ reqs[3].status = 200
    /\ sleeps = 2

\* the source database exists and every timestamp the run normalizes parses:
\* the configured watermark and both timestamps of every record
TimestampsParse ==
    /\ PathExists(srcFile)
    /\ \A configured \in {ConfiguredDelta(safe_load(cfgFile))} :
        convert_date(configured) # ValueError
    /\ \A items \in {parse_database(srcFile)} :
       \A i \in 1..Len(items) :
       \A record \in {items[i]} :
        /\ convert_date(record.datecreated) # ValueError
        /\ convert_date(record.datemodified) # ValueError

\* a call of create_notion_page ends only in a step that receives a 200 and
\* records the page as published
LeavesCallOnlyOn200 ==
    (InCall /\ ~InCall')
        => /\ pc = "post"
           /\ response' = 200
           /\ published' = Append(published, idx)
           /\ idx' = idx + 1
           /\ pc' = "loop"
           /\ cfgFile' = cfgFile

\* no rejection ends a call or the run
RejectionNeverTerminal == [][LeavesCallOnlyOn200]_vars

\* C7: a rejected request never ends the call, skips the record, persists the
\* watermark or ends the run; and, every request being answered with 200
\* after finitely many rejections, a run whose source database exists and
\* whose timestamps all parse reaches the end of the script.
C7_RejectedRetriedUntilDone ==
    /\ [][LeavesCallOnlyOn200]_vars
    /\ (pc = "load" /\ TimestampsParse) ~> (pc = "done")

\* every record of the source database has a text
TextsPresent ==
    \A items \in {parse_database(srcFile)} :
    \A i \in 1..Len(items) : items[i].text # None

\* the run reaches the end of the script when, in addition, no record lacks
\* its text
DoneWhenTextsPresent ==
    (pc = "load" /\ TimestampsParse /\ TextsPresent) ~> (pc = "done")

\* the step of the orchestration a place belongs to: Start, CopyDatabase,
\* ExtractRecords, FilterAndPublish, PersistWatermark, Done
Stage(p) ==
    CASE p = "load" -> 0
      [] p = "copy" -> 1
      [] p = "export" -> 2
      [] p \in {"loop", "post", "sleep"} -> 3
      [] p = "persist" -> 4
      [] p \in {"finish", "done"} -> 5

\* within one invocation a step stays in its stage or enters the next one
StageOrder ==
    (runs' = runs /\ pc' \in Running \cup {"done"})
        => /\ Stage(pc') \in {Stage(pc), Stage(pc) + 1}
           /\ (Stage(pc') = Stage(pc) /\ pc' # pc) => Stage(pc) \in {3, 5}

\* the number of writes of config.yaml by the run
ConfigWrites == Cardinality({ k \in 1..Len(effects) : effects[k] = "write_config" })

\* the calls of create_notion_page are made one at a time, in the order of
\* the records, once for each record that is newer than the watermark; the
\* watermark is written at most once, after the last of them has returned
Sequential ==
    /\ \A k \in 1..(Len(called) - 1) : called[k] < called[k + 1]
    /\ \A k \in 1..Len(called) : called[k] \in 1..idx
    /\ \A i \in Decided :
        (\E k \in 1..Len(called) : called[k] = i) <=> Newer(i, delta_date)
    /\ \/ published = called
       \/ /\ called = Append(published, idx)
          /\ pc \in {"post", "sleep", "killed", "aborted"}
    /\ ConfigWrites <= 1
    /\ ConfigWrites = 1 =>
        /\ pc \in {"finish", "done", "killed"}
        /\ published = called
        /\ PublishedSet = { i \in 1..Len(kobo_items) : Newer(i, delta_date) }

\* C8: the stages of a run follow each other in order and none is entered
\* again; create_notion_page is called once per eligible record, in
\* extraction order, each call returning before the next record is looked
\* at; config.yaml is written at most once, after the last call returned.
C8_LinearOrder == []Sequential /\ [][StageOrder]_vars

\* C8 witness: a run that published two records in order and then wrote the
\* watermark is done.
C8_Witness ==
    /\ pc = "done"
    /\ published = << 1, 2 >>
    /\ ConfigWrites = 1

\* C9: when the source database does not exist the process logs one error
\* and exits at copy_database: no file is removed or written, no record is
\* extracted, no request is sent, config.yaml is not written.
C9_NoSourceNoEffect ==
    ~srcFile.exists =>
        /\ pc \in {"load", "copy", "exited", "killed", "aborted"}
        /\ effects = << >>
        /\ cacheFile = cacheAtStart
        /\ cfgFile = cfgAtStart
        /\ kobo_items = << >>
        /\ called = << >>
        /\ reqs = << >>
        /\ pc = "exited" =>
            /\ raised = "SystemExit"
            /\ Len(log) = 1
            /\ log[1].level = "ERROR"

\* C9 witness: the process has exited, leaving an older cache file in place.
C9_Witness ==
    /\ ~srcFile.exists
    /\ pc = "exited"
    /\ cacheFile.exists

\* C10: a run terminated before its watermark step leaves config.yaml as it
\* was when the run started, and the run that follows it on the same
\* records publishes again every record the terminated run had published.
C10_TerminatedRunIsReplayed ==
    /\ (pc = "killed" /\ haltedAt # "finish") => cfgFile = cfgAtStart
    /\ (prevOutcome = "killed" /\ pc \in {"done", "aborted", "exited"})
            => prevPublished \subseteq PublishedSet

\* C10 witness: a run was terminated after it had published a record, and
\* the next run has published that record again and is done.
C10_Witness ==
    /\ prevOutcome = "killed"
    /\ prevPublished # {}
    /\ pc = "done"
    /\ prevPublished \subseteq PublishedSet

\* the copied database has been queried and the query failed
ReadFailed ==
    /\ ~cacheFile.readable
    /\ \E k \in 1..Len(effects) : effects[k] = "query_cache"

\* C11: when the query on the copied database fails, parse_database raises
\* nothing: the failed read is reported on the log, no record is extracted,
\* the run goes on through its remaining stages to "Process finished" with
\* no call of create_notion_page and no request, and config.yaml stays as it
\* was when the run started.
C11_ReadFailureRunsToDone ==
    ReadFailed =>
        /\ raised = ""
        /\ kobo_items = << >>
        /\ called = << >>
        /\ reqs = << >>
        /\ cfgFile = cfgAtStart
        /\ ConfigWrites = 0
        /\ LogCount("ERROR") = 1
        /\ pc \in {"loop", "persist", "finish", "done", "killed"}
        /\ pc \in {"loop", "persist", "finish"} => ENABLED Step

\* C11 witness: a run whose query failed is done.
C11_Witness ==
    /\ ReadFailed
    /\ pc = "done"
    /\ Len(log) = 4
    /\ log[3].level = "ERROR"

\* the timestamps of the records that neither of the two parsers accepts
Unparseable ==
    { d \in RecordDates : fromisoformat(d) = ParseError /\ strptime(d) = ParseError }

\* the record at position i carries a timestamp that cannot be parsed
HasUnparseable(i) ==
    \/ kobo_items[i].datecreated \in Unparseable
    \/ kobo_items[i].datemodified \in Unparseable

\* C12: a record whose createdAt or modifiedAt cannot be parsed stops the run
\* at its position with an uncaught ValueError: the loop never gets past the
\* record, no page is created for it or for a later record, the run reaches
\* neither its watermark step nor its end, and config.yaml stays as it was
\* when the run started, whatever was published before.
C12_UnparsedTimestampAborts ==
    /\ \A i \in 1..Len(kobo_items) :
            HasUnparseable(i) =>
                /\ idx <= i
                /\ idx = i => pc \in {"loop", "aborted", "killed"}
                /\ \A k \in 1..Len(called) : called[k] < i
                /\ PublishedSet \subseteq 1..(i - 1)
                /\ pc \notin {"persist", "finish", "done"}
                /\ ConfigWrites = 0
                /\ cfgFile = cfgAtStart
    /\ (pc = "aborted" /\ idx >= 1) =>
            /\ raised \in {"ValueError", "TypeError"}
            /\ raised = "ValueError" => HasUnparseable(idx)
            /\ raised = "ValueError" => PublishedSet \subseteq 1..(idx - 1)
            /\ cfgFile = cfgAtStart

\* C12 witness: the second record's modifiedAt cannot be parsed; the run
\* published the first record and then ended in ValueError, the watermark
\* unwritten.
C12_Witness ==
    /\ pc = "aborted"
    /\ raised = "ValueError"
    /\ idx = 2
    /\ published = << 1 >>
    /\ kobo_items[2].datemodified \in Unparseable
    /\ kobo_items[2].datecreated \notin Unparseable
    /\ cfgFile = cfgAtStart

(***************************************************************************)
(* Runs over one record with a long text, for the cutting of the text into *)
(* content blocks.                                                         *)
(***************************************************************************)
\* the texts are up to MaxBlocks whole blocks long, give or take Slack
MaxBlocks == 2

Slack == 8

\* the lengths of the texts: around every multiple of the block size
TextLengths ==
    { n \in { k * BlockSize + d : k \in 0..MaxBlocks, d \in (0 - Slack)..Slack } :
        n >= 0 }

\* a text of n characters in which no two blocks read alike
LongText(n) ==
    [i \in 1..n |-> << "a", "b", "c", "d", "e", "f", "g" >>[(i % 7) + 1]]

\* a database with one new highlight of a long text, and no watermark yet
ChunkInit ==
    /\ \E n \in TextLengths :
            srcFile = DbFile(<< Row(Highlight, LongText(n), DateJun, DateJun, << "L" >>) >>)
    /\ cacheFile = Absent
    /\ cfgFile = ConfigDoc(Scalar("double", << >>))
    /\ Fresh
    /\ cfgAtStart = cfgFile
    /\ cacheAtStart = cacheFile
    /\ runs = 1
    /\ prevOutcome = ""
    /\ prevPublished = {}

ChunkSpec == ChunkInit /\ [][Step]_vars

\* the texts of a sequence of paragraphs, one after the other
RECURSIVE Concat(_)
Concat(paragraphs) ==
    IF paragraphs = << >> THEN << >>
    ELSE Head(paragraphs).content \o Concat(Tail(paragraphs))

\* the children of the request body but the last
ContentBlocks == SubSeq(data.children, 1, Len(data.children) - 1)

\* C13: while create_notion_page is at work on a record, the children of its
\* request body are the content blocks followed by one italic attribution
\* paragraph; the content blocks, joined in their order, are the record's
\* text exactly; every content block but the last is BlockSize characters
\* long and the last is not longer; every request sent carries this body.
C13_ChunkingLaw ==
    pc \in {"post", "sleep"} =>
        /\ Len(data.children) >= 1
        /\ data.children[Len(data.children)] = Paragraph(SourceContent(kobo_items[idx]), TRUE)
        /\ Concat(ContentBlocks) = kobo_items[idx].text
        /\ \A k \in 1..Len(ContentBlocks) :
                /\ ~ContentBlocks[k].italic
                /\ Len(ContentBlocks[k].content) >= 1
                /\ Len(ContentBlocks[k].content) <= BlockSize
                /\ k < Len(ContentBlocks) => Len(ContentBlocks[k].content) = BlockSize
        /\ \A k \in 1..Len(reqs) : reqs[k].body = data

\* C13 witness: a text one character longer than two blocks is sent, after a
\* rejected request, as two whole blocks and a block of one character.
C13_Witness ==
    /\ pc = "post"
    /\ Len(reqs) = 1
    /\ Len(kobo_items[idx].text) = 2 * BlockSize + 1
    /\ Len(data.children) = 4
    /\ Len(data.children[3].content) = 1

\* the fields of the configuration other than the watermark
OtherFields ==
    { << "kobo", "database_path" >>, << "kobo", "database_cache" >>,
      << "notion", "integration_token" >>, << "notion", "parent_page" >>,
      << "notion", "icon" >> }

\* C14: a run that has written config.yaml has changed the value of
\* delta_date only: the written file has the sections and keys of the file
\* the run loaded, every field other than delta_date loads from it to the
\* value it loaded to at startup, and delta_date is the run's new watermark.
C14_OnlyWatermarkRewritten ==
    ConfigWrites >= 1 =>
        /\ DOMAIN cfgFile = DOMAIN cfgAtStart
        /\ \A sec \in DOMAIN cfgFile : DOMAIN cfgFile[sec] = DOMAIN cfgAtStart[sec]
        /\ \A f \in OtherFields :
                /\ LoadScalar(cfgFile[f[1]][f[2]]) = LoadScalar(cfgAtStart[f[1]][f[2]])
                /\ config[f[1]][f[2]] = LoadScalar(cfgAtStart[f[1]][f[2]])
        /\ Persisted = latest_date
        /\ Persisted # LoadScalar(cfgAtStart.kobo2notion.delta_date)

\* C14 witness: a run that published a record is done and has written
\* config.yaml; the file holds the other fields in another style (quoted)
\* than the file the run loaded.
C14_Witness ==
    /\ pc = "done"
    /\ published # << >>
    /\ ConfigWrites = 1
    /\ cfgFile.notion.icon # cfgAtStart.notion.icon
    /\ cfgFile.kobo.database_path.style = "double"
    /\ cfgAtStart.kobo.database_path.style = "plain"

(***************************************************************************)
(* Runs over one record whose timestamps are drawn from years of three and *)
(* four digits, for the order of the canonical strings.                    *)
(***************************************************************************)
\* '0999-12-31T23:59:59'
Date999 ==
    << "0", "9", "9", "9", "-", "1", "2", "-", "3", "1", "T",
       "2", "3", ":", "5", "9", ":", "5", "9" >>

\* '1000-01-01T00:00:00Z'
Date1000 ==
    << "1", "0", "0", "0", "-", "0", "1", "-", "0", "1", "T",
       "0", "0", ":", "0", "0", ":", "0", "0", "Z" >>

\* '2023-06-01T02:00:00+02:00', a timestamp with a UTC offset
DateOffset ==
    << "2", "0", "2", "3", "-", "0", "6", "-", "0", "1", "T",
       "0", "2", ":", "0", "0", ":", "0", "0", "+", "0", "2", ":", "0", "0" >>

\* the timestamps the record may carry: all of them parse
OrderDates == {Date999, Date1000, DateJan, DateJun, DateOffset, DateDec}

\* a database with one record, and no watermark yet
DateInit ==
    /\ \E a \in OrderDates : \E b \in OrderDates :
            srcFile = DbFile(<< Row(Highlight, << "x" >>, a, b, << "O" >>) >>)
    /\ cacheFile = Absent
    /\ cfgFile = ConfigDoc(Scalar("double", << >>))
    /\ Fresh
    /\ cfgAtStart = cfgFile
    /\ cacheAtStart = cacheFile
    /\ runs = 1
    /\ prevOutcome = ""
    /\ prevPublished = {}

DateSpec == DateInit /\ [][Step]_vars

\* the position of the first "-" of a canonical string
YearEnd(c) == CHOOSE p \in 1..Len(c) : c[p] = "-" /\ \A q \in 1..(p - 1) : c[q] # "-"

\* the instant a canonical string denotes: year, month, day, hour, minute
\* and second, read off its fields
Denoted(c) ==
    LET p == YearEnd(c)
    IN << Num(SubSeq(c, 1, p - 1)), Num(SubSeq(c, p + 1, p + 2)),
          Num(SubSeq(c, p + 4, p + 5)), Num(SubSeq(c, p + 7, p + 8)),
          Num(SubSeq(c, p + 10, p + 11)), Num(SubSeq(c, p + 13, p + 14)) >>

\* the instant a is earlier than the instant b
RECURSIVE Earlier(_, _)
Earlier(a, b) ==
    /\ a # << >>
    /\ \/ Head(a) < Head(b)
       \/ Head(a) = Head(b) /\ Earlier(Tail(a), Tail(b))

\* the loop has normalized both timestamps of a record
BothNormalized ==
    /\ date_created \notin {None, ValueError}
    /\ date_modified \notin {None, ValueError}

\* C15: for the canonical strings A and B that convert_date returned for a
\* record's createdAt and modifiedAt, A is less than B as a string if and
\* only if the instant A denotes is earlier than the instant B denotes.
C15_StringOrderIsTimeOrder ==
    BothNormalized =>
        (StrLess(date_created, date_modified)
            <=> Earlier(Denoted(date_created), Denoted(date_modified)))

\* the order law for the canonical strings of years of four digits
OrderFromYear1000 ==
    (BothNormalized /\ YearEnd(date_created) = 5 /\ YearEnd(date_modified) = 5) =>
        (StrLess(date_created, date_modified)
            <=> Earlier(Denoted(date_created), Denoted(date_modified)))

\* "YYYY-MM-DD HH:MM:SS"
CanonicalShape(c) ==
    /\ Len(c) = 19
    /\ DateShape(SubSeq(c, 1, 10))
    /\ c[11] = " "
    /\ ClockShape(SubSeq(c, 12, 19))

\* the canonical strings among the normalized timestamps of the records
CanonicalDates ==
    { Normalized[d] : d \in { e \in RecordDates :
                                /\ Normalized[e] # ValueError
                                /\ CanonicalShape(Normalized[e]) } }

\* C16: every extracted record carries a createdAt and a modifiedAt, the
\* epoch sentinel where the row had none; the sentinel normalizes to itself;
\* and the timestamps the loop has normalized are non-empty canonical
\* strings.
C16_TimestampsNeverAbsent ==
    /\ \A i \in 1..Len(kobo_items) :
            /\ kobo_items[i].datecreated \notin {None, << >>}
            /\ kobo_items[i].datemodified \notin {None, << >>}
            /\ cacheFile.rows[i][6] = None => kobo_items[i].datecreated = NODELTA_DATE
            /\ cacheFile.rows[i][7] = None => kobo_items[i].datemodified = NODELTA_DATE
            /\ cacheFile.rows[i][6] # None => kobo_items[i].datecreated = cacheFile.rows[i][6]
            /\ cacheFile.rows[i][7] # None => kobo_items[i].datemodified = cacheFile.rows[i][7]
    /\ NODELTA_DATE \in RecordDates /\ Normalized[NODELTA_DATE] = NODELTA_DATE
    /\ date_created # None => date_created \in CanonicalDates
    /\ date_modified # None => date_modified \in CanonicalDates
    /\ \A i \in 1..(idx - 1) :
            /\ cacheFile.rows[i][6] = None => CreatedAt(i) = NODELTA_DATE
            /\ cacheFile.rows[i][7] = None => ModifiedAt(i) = NODELTA_DATE

\* C16 witness: the loop has normalized a record whose row had neither
\* timestamp: both are the epoch sentinel.
C16_Witness ==
    /\ pc = "loop"
    /\ idx = 2
    /\ cacheFile.rows[1][6] = None
    /\ cacheFile.rows[1][7] = None
    /\ date_created = NODELTA_DATE
    /\ date_modified = NODELTA_DATE

(***************************************************************************)
(* Runs that follow each other over changing databases: between two runs   *)
(* the e-reader comes back with other records.                             *)
(***************************************************************************)
\* the databases the e-reader may come back with: one record each
LaterTables == { t \in Tables : Len(t) = 1 }

\* the script is invoked again, on an e-reader database with other records
Resync ==
    /\ \E t \in LaterTables : srcFile' = DbFile(t)
    /\ UNCHANGED << cacheFile, cfgFile >>
    /\ pc \in Ended
    /\ runs < MaxRuns
    /\ runs' = runs + 1
    /\ prevOutcome' = Outcome
    /\ prevPublished' = { published[i] : i \in 1..Len(published) }
    /\ cfgAtStart' = cfgFile
    /\ cacheAtStart' = cacheFile
    /\ pc' = "load"
    /\ raised' = ""
    /\ config' = NoConfig
    /\ delta_date' = None
    /\ kobo_items' = << >>
    /\ idx' = 0
    /\ date_created' = None
    /\ date_modified' = None
    /\ latest_date' = None
    /\ data' = NoData
    /\ response' = 0
    /\ log' = << >>
    /\ effects' = << >>
    /\ called' = << >>
    /\ published' = << >>
    /\ reqs' = << >>
    /\ sleeps' = 0
    /\ haltedAt' = ""

\* a first run over one record, from any of the configuration files
GrowInit ==
    /\ \E t \in LaterTables : srcFile = DbFile(t)
    /\ cacheFile = Absent
    /\ cfgFile \in { ConfigDoc(d) : d \in DeltaScalars }
    /\ Fresh
    /\ cfgAtStart = cfgFile
    /\ cacheAtStart = cacheFile
    /\ runs = 1
    /\ prevOutcome = ""
    /\ prevPublished = {}

GrowNext == Step \/ Kill \/ Resync

GrowSpec == GrowInit /\ [][GrowNext]_vars

\* the watermark a run reads from a configuration file, before convert_date
WatermarkIn(doc) == ConfiguredDelta(safe_load(doc))

\* a step that changes config.yaml makes its watermark strictly greater
WatermarkGrows ==
    cfgFile' # cfgFile =>
        /\ StrGreater(LoadScalar(cfgFile'.kobo2notion.delta_date), WatermarkIn(cfgFile))
        /\ StrGreater(LoadScalar(cfgFile'.kobo2notion.delta_date), delta_date)

\* a run that has not written config.yaml has left it as it was; one that
\* has written it has written a watermark strictly greater than the one it
\* read when it started
GreaterThanRead ==
    /\ ConfigWrites = 0 => cfgFile = cfgAtStart
    /\ ConfigWrites >= 1 =>
            /\ StrGreater(Persisted, delta_date)
            /\ \E read \in {convert_date(WatermarkIn(cfgAtStart))} : delta_date = read

\* C17: over runs that follow each other on changing databases, whether
\* they complete, abort or are terminated, no step makes the watermark of
\* config.yaml smaller: a step that changes the file makes the watermark
\* strictly greater than it was, and a run that has written it has written
\* a value strictly greater than the one it read when it started.
C17_WatermarkNeverDecreases == []GreaterThanRead /\ [][WatermarkGrows]_vars

\* C17 witness: a run read a watermark that an earlier run had written (the
\* file is quoted throughout) and has written a greater one.
C17_Witness ==
    /\ runs = 2
    /\ pc = "done"
    /\ ConfigWrites = 1
    /\ cfgAtStart.kobo.database_path.style = "double"
    /\ StrGreater(Persisted, LoadScalar(cfgAtStart.kobo2notion.delta_date))

\* the loop of export_kobo_items over items from position k on: the records
\* it publishes and the watermark it accumulates, given those so far
RECURSIVE ExportLoop(_, _, _, _)
ExportLoop(items, k, delta, sofar) ==
    IF k > Len(items) THEN sofar
    ELSE LET dc == Normalized[items[k].datecreated]
             dm == Normalized[items[k].datemodified]
         IN IF Eligible(Threshold(delta, sofar.latest), dc, dm)
            THEN ExportLoop(items, k + 1, delta,
                            [records |-> sofar.records \cup {items[k]},
                             latest |-> NewLatest(sofar.latest, dc, dm)])
            ELSE ExportLoop(items, k + 1, delta, sofar)

\* the records the run has published
PublishedRecords == { kobo_items[i] : i \in PublishedSet }

\* kobo_items in the order a permutation of its positions puts them
Reordered(perm) == [i \in 1..Len(kobo_items) |-> kobo_items[perm[i]]]

\* C18: the filter compares every record with the watermark the run read
\* at startup, not with the greatest timestamp published so far: a decided
\* record that is newer than the startup watermark is published, whatever
\* was published before it; and once a run is through its watermark step,
\* the loop run over any reordering of the same records publishes the
\* records the run has published and accumulates the watermark the run has
\* accumulated and written.
C18_OrderDoesNotMatter ==
    /\ \A j \in Decided : Newer(j, delta_date) => j \in PublishedSet
    /\ PastPersist =>
            /\ \A perm \in Permutations(1..Len(kobo_items)) :
                    ExportLoop(Reordered(perm), 1, delta_date,
                               [records |-> {}, latest |-> None])
                        = [records |-> PublishedRecords, latest |-> latest_date]
            /\ Truthy(latest_date) => Persisted = latest_date
            /\ ~Truthy(latest_date) => cfgFile = cfgAtStart

\* C18 witness: the second record is older than the first, which was
\* published, and newer than the startup watermark; the run has published
\* both and is done.
C18_Witness ==
    /\ pc = "done"
    /\ published = << 1, 2 >>
    /\ StrGreater(CreatedAt(1), CreatedAt(2))
    /\ StrGreater(CreatedAt(1), ModifiedAt(2))
    /\ Newer(2, delta_date)
    /\ Persisted = CreatedAt(1)

====
